---- MODULE Spec2Model ----
(***************************************************************************)
(* A model of src/src/whisper_streaming/online_asr.py: HypothesisBuffer,   *)
(* OnlineASRProcessor and VACOnlineASRProcessor.                           *)
(*                                                                         *)
(* Units.  Time is counted in ticks of 0.05 s and audio in blocks of 800   *)
(* samples, so one block of audio lasts one tick, the 0.1 s commit horizon *)
(* is 2 ticks, the 1 s de-duplication window is 20 ticks and the sampling  *)
(* rate of 16000 samples per second is 20 blocks per second.  A text is a  *)
(* sequence of one-character strings; a timed word is the Python triple    *)
(* <<begin, end, text>>.                                                   *)
(***************************************************************************)
EXTENDS Integers, Sequences, FiniteSets, TLC

\* ------------------------------------------------------------------ bounds

\* Longest hypothesis (in words) the recognizer returns.
MaxHyp == 2
\* Largest chunk (in blocks) one insert_audio_chunk call appends.
MaxChunk == 1
\* Most words committed in one utterance.
MaxCommitted == 2
\* Longest word list words_to_sentences is given.
MaxSentenceWords == 3
\* Longest list segments_end_ts returns.
MaxSegs == 3
\* Most VACOnlineASRProcessor.insert_audio_chunk calls in one run.
MaxVacCalls == 3
\* online_chunk_size, the VAC constructor's threshold, in ticks.
online_chunk_size == 1
\* buffer_trimming_sec, the constructor's threshold, in ticks.
buffer_trimming_sec == 2

\* The audio the caller inserts at most, in blocks: enough to pass the
\* threshold by more than one chunk.
MaxAudio == buffer_trimming_sec + MaxChunk + 1

\* --------------------------------------------------------------- constants

\* a > self.last_commited_time - 0.1, in ticks.
HORIZON == 2
\* abs(a - self.last_commited_time) < 1, in ticks.
DEDUP_WINDOW == 20
\* "5 is the maximum" n-gram of the boundary de-duplication.
MAX_NGRAM == 5
\* SAMPLING_RATE = 16000 samples per second, in blocks per second.
SAMPLING_RATE == 20
\* Python's None where a number is expected (timestamps are >= 0).
None == -1
\* "200 characters prompt size" of prompt().
PROMPT_SIZE == 200

\* asr.sep, the recognizer's separator.
ASR_SEP == <<" ">>
\* The window-local timed words the recognizer produces, 0 <= begin <= end:
\* two texts, a word that ends a tick before another does, and one that ends
\* two ticks before.
Words == {<<1, 2, <<"b">>>>, <<1, 1, <<"a">>>>, <<0, 0, <<"a">>>>}
\* Window-local segment ends the recognizer reports.
SegEndVals == {1, 2, 3}

\* ----------------------------------------------------------------- helpers

Min(a, b) == IF a <= b THEN a ELSE b
Max(a, b) == IF a >= b THEN a ELSE b
Smallest(S) == CHOOSE n \in S : \A m \in S : n <= m
Abs(a) == IF a >= 0 THEN a ELSE 0 - a

\* s[k:] of Python, for any integer k.
PySliceFrom(s, k) ==
    LET n == Len(s)
        i == IF k >= 0 THEN Min(k, n) ELSE Max(n + k, 0)
    IN  SubSeq(s, i + 1, n)

\* s[:k] of Python, for any integer k.
PySliceTo(s, k) ==
    LET n == Len(s)
        j == IF k >= 0 THEN Min(k, n) ELSE Max(n + k, 0)
    IN  SubSeq(s, 1, j)

\* s[a:b] of Python, for any integers a, b.
PySlice(s, a, b) ==
    LET n == Len(s)
        i == IF a >= 0 THEN Min(a, n) ELSE Max(n + a, 0)
        j == IF b >= 0 THEN Min(b, n) ELSE Max(n + b, 0)
    IN  SubSeq(s, i + 1, j)

\* sep.join(texts) of Python.
RECURSIVE Join(_, _)
Join(texts, sep) ==
    IF Len(texts) = 0 THEN <<>>
    ELSE IF Len(texts) = 1 THEN texts[1]
    ELSE texts[1] \o sep \o Join(Tail(texts), sep)

Texts(words) == [i \in 1..Len(words) |-> words[i][3]]

IsPrefix(s, t) == Len(s) <= Len(t) /\ SubSeq(t, 1, Len(s)) = s

\* All sequences over S of length at most n.
SeqsUpTo(S, n) == UNION {[1..k -> S] : k \in 0..n}

IsSorted(s) == \A i \in 1..(Len(s) - 1) : s[i] <= s[i + 1]

\* ------------------------------------------------------------ input domains

\* What asr.ts_words(res) can return.
Hypotheses == SeqsUpTo(Words, MaxHyp)
\* What asr.segments_end_ts(res) can return: sorted, as the recognizer promises.
SegmentEnds == {s \in SeqsUpTo(SegEndVals, MaxSegs) : IsSorted(s)}
\* The narrower domains of the specifications that vary the other input.
FewHypotheses == {<<>>} \cup {<<w>> : w \in Words}
FewSegmentEnds == {<<>>, <<1, 3>>}
ChunkSizes == 1..MaxChunk
\* The chunks the VAC is handed: short ones, and ones of half a second.
VacChunkSizes == ChunkSizes \cup {SAMPLING_RATE \div 2}

\* ---------------------------------------------------------- return values

\* A returned (beg, end, text) triple, or an exception that left the call.
Triple(b, e, t) == [kind |-> "return", b |-> b, e |-> e, t |-> t, exc |-> "-"]
Raise(exc) == [kind |-> "raise", b |-> None, e |-> None, t |-> <<>>, exc |-> exc]
NoReturn == [kind |-> "-", b |-> None, e |-> None, t |-> <<>>, exc |-> "-"]

\* -------------------------------------------------------- HypothesisBuffer

\* HypothesisBuffer.__init__
HypothesisBuffer ==
    [commited_in_buffer |-> <<>>, buffer |-> <<>>, new |-> <<>>,
     last_commited_time |-> 0, last_commited_word |-> <<>>]

\* A mutant of HorizonFilter: no word is discarded.
HorizonFilter_KeepsAll(new, last_commited_time) == new

\* The words of new that begin after the commit horizon (line 24).
HorizonFilter(new, last_commited_time) ==
    LET Keep(w) == w[1] > last_commited_time - HORIZON
    IN  SelectSeq(new, Keep)

\* A mutant of NgramLoop: the longest agreeing n-gram is taken.
RECURSIVE NgramLoop_Longest(_, _, _, _)
NgramLoop_Longest(cib, new, i, lim) ==
    IF i > lim THEN 0
    ELSE LET cn == Len(cib)
             c == Join(Texts(SubSeq(cib, cn - i + 1, cn)), <<" ">>)
             tail == Join(Texts(SubSeq(new, 1, i)), <<" ">>)
             longer == NgramLoop_Longest(cib, new, i + 1, lim)
         IN  IF longer > 0 THEN longer ELSE IF c = tail THEN i ELSE 0

\* The loop of lines 33-46: the first i in i..lim whose n-grams agree is the
\* number of words popped from the front of new; 0 when none agrees.
RECURSIVE NgramLoop(_, _, _, _)
NgramLoop(cib, new, i, lim) ==
    IF i > lim THEN 0
    ELSE LET cn == Len(cib)
             c == Join(Texts(SubSeq(cib, cn - i + 1, cn)), <<" ">>)
             tail == Join(Texts(SubSeq(new, 1, i)), <<" ">>)
         IN  IF c = tail THEN i ELSE NgramLoop(cib, new, i + 1, lim)

\* HypothesisBuffer.insert
insert(hb, new, offset) ==
    LET shifted == [i \in 1..Len(new) |->
                       <<new[i][1] + offset, new[i][2] + offset, new[i][3]>>]
        kept == HorizonFilter(shifted, hb.last_commited_time)
        drop == IF /\ Len(kept) >= 1
                   /\ Abs(kept[1][1] - hb.last_commited_time) < DEDUP_WINDOW
                   /\ hb.commited_in_buffer # <<>>
                THEN NgramLoop(hb.commited_in_buffer, kept, 1,
                               Min(Min(Len(hb.commited_in_buffer), Len(kept)),
                                   MAX_NGRAM))
                ELSE 0
    IN  [hb EXCEPT !.new = SubSeq(kept, drop + 1, Len(kept))]

\* A mutant of FlushLoop: the committed word is the one of buffer, with the
\* timestamps of the previous pass.
RECURSIVE FlushLoop_BufferTimes(_)
FlushLoop_BufferTimes(st) ==
    IF Len(st.new) = 0 \/ Len(st.buffer) = 0 THEN st
    ELSE IF st.new[1][3] = st.buffer[1][3]
         THEN FlushLoop_BufferTimes(
                  [new |-> Tail(st.new), buffer |-> Tail(st.buffer),
                   commit |-> Append(st.commit, st.buffer[1]),
                   last_commited_time |-> st.buffer[1][2],
                   last_commited_word |-> st.buffer[1][3]])
         ELSE st

\* The while loop of flush (lines 52-65), on (new, buffer, commit, time, word).
RECURSIVE FlushLoop(_)
FlushLoop(st) ==
    IF Len(st.new) = 0 \/ Len(st.buffer) = 0 THEN st
    ELSE IF st.new[1][3] = st.buffer[1][3]
         THEN FlushLoop([new |-> Tail(st.new), buffer |-> Tail(st.buffer),
                         commit |-> Append(st.commit, st.new[1]),
                         last_commited_time |-> st.new[1][2],
                         last_commited_word |-> st.new[1][3]])
         ELSE st

\* A mutant of flush: new is committed whole, whatever buffer holds.
flush_CommitsAll(hb) ==
    [hb |-> [commited_in_buffer |-> hb.commited_in_buffer \o hb.new,
             buffer |-> <<>>, new |-> <<>>,
             last_commited_time |-> IF Len(hb.new) = 0 THEN hb.last_commited_time
                                    ELSE hb.new[Len(hb.new)][2],
             last_commited_word |-> IF Len(hb.new) = 0 THEN hb.last_commited_word
                                    ELSE hb.new[Len(hb.new)][3]],
     commit |-> hb.new]

\* HypothesisBuffer.flush: the buffer afterwards and the returned commit.
flush(hb) ==
    LET st == FlushLoop([new |-> hb.new, buffer |-> hb.buffer, commit |-> <<>>,
                         last_commited_time |-> hb.last_commited_time,
                         last_commited_word |-> hb.last_commited_word])
    IN  [hb |-> [commited_in_buffer |-> hb.commited_in_buffer \o st.commit,
                 buffer |-> st.new, new |-> <<>>,
                 last_commited_time |-> st.last_commited_time,
                 last_commited_word |-> st.last_commited_word],
         commit |-> st.commit]

\* HypothesisBuffer.pop_commited
RECURSIVE PopLoop(_, _)
PopLoop(cib, time) ==
    IF Len(cib) > 0 /\ cib[1][2] <= time THEN PopLoop(Tail(cib), time) ELSE cib

pop_commited(hb, time) ==
    [hb EXCEPT !.commited_in_buffer = PopLoop(hb.commited_in_buffer, time)]

\* HypothesisBuffer.complete
complete(hb) == hb.buffer

\* ------------------------------------------------------ OnlineASRProcessor

\* OnlineASRProcessor.__init__ and init(offset): a fresh utterance.
init(way, offset) ==
    [audio_buffer |-> <<>>,
     transcript_buffer |-> [HypothesisBuffer EXCEPT !.last_commited_time = offset],
     buffer_time_offset |-> offset,
     commited |-> <<>>,
     buffer_trimming_way |-> way]

\* OnlineASRProcessor.insert_audio_chunk
insert_audio_chunk(self, audio) ==
    [self EXCEPT !.audio_buffer = self.audio_buffer \o audio]

\* OnlineASRProcessor.concatenate_tsw, with sep = asr.sep and offset = 0.
concatenate_tsw(tsw) ==
    IF Len(tsw) = 0 THEN Triple(None, None, Join(Texts(tsw), ASR_SEP))
    ELSE Triple(tsw[1][1], tsw[Len(tsw)][2], Join(Texts(tsw), ASR_SEP))

\* A mutant of chunk_at: the trimmed words leave commited too.
chunk_at_PopsCommited(self, time) ==
    [self EXCEPT
       !.transcript_buffer = pop_commited(self.transcript_buffer, time),
       !.commited = PopLoop(self.commited, time),
       !.audio_buffer = PySliceFrom(self.audio_buffer, time - self.buffer_time_offset),
       !.buffer_time_offset = time]

\* OnlineASRProcessor.chunk_at.  int(cut_seconds * SAMPLING_RATE) samples are
\* cut_seconds ticks' worth of blocks.
chunk_at(self, time) ==
    LET cut_seconds == time - self.buffer_time_offset
    IN  [self EXCEPT
           !.transcript_buffer = pop_commited(self.transcript_buffer, time),
           !.audio_buffer = PySliceFrom(self.audio_buffer, cut_seconds),
           !.buffer_time_offset = time]

\* A mutant of SegmentLoop: no segment is discarded.
SegmentLoop_NoPop(ends, offset, t) == ends

\* The while loop of chunk_completed_segment (lines 257-259): the list of
\* ends it stops with.
RECURSIVE SegmentLoop(_, _, _)
SegmentLoop(ends, offset, t) ==
    IF Len(ends) > 2 /\ ends[Len(ends) - 1] + offset > t
    THEN SegmentLoop(SubSeq(ends, 1, Len(ends) - 1), offset, t)
    ELSE ends

\* A mutant of chunk_completed_segment: the second-to-last segment end is
\* taken without comparing it with the last committed word.
chunk_completed_segment_Unchecked(self, ends) ==
    IF self.commited = <<>> \/ Len(ends) <= 1 THEN self
    ELSE [self EXCEPT
            !.transcript_buffer =
                pop_commited(self.transcript_buffer,
                             ends[Len(ends) - 1] + self.buffer_time_offset),
            !.audio_buffer = PySliceFrom(self.audio_buffer, ends[Len(ends) - 1]),
            !.buffer_time_offset = ends[Len(ends) - 1] + self.buffer_time_offset]

\* OnlineASRProcessor.chunk_completed_segment, ends being what
\* asr.segments_end_ts(res) returned.
chunk_completed_segment(self, ends) ==
    IF self.commited = <<>> THEN self
    ELSE LET t == self.commited[Len(self.commited)][2]
         IN  IF Len(ends) <= 1 THEN self
             ELSE LET rest == SegmentLoop(ends, self.buffer_time_offset, t)
                      e == rest[Len(rest) - 1] + self.buffer_time_offset
                  IN  IF e <= t THEN chunk_at(self, e) ELSE self

\* while k > 0 and self.commited[k - 1][1] > self.buffer_time_offset: k -= 1
RECURSIVE PromptK(_, _, _)
PromptK(commited, k, offset) ==
    IF k > 0 /\ commited[k][2] > offset
    THEN PromptK(commited, k - 1, offset)
    ELSE k

\* while p and l < 200: x = p.pop(-1); l += len(x) + 1; prompt.append(x)
RECURSIVE PromptLoop(_, _, _)
PromptLoop(p, l, acc) ==
    IF p # <<>> /\ l < PROMPT_SIZE
    THEN LET x == p[Len(p)]
         IN  PromptLoop(SubSeq(p, 1, Len(p) - 1), l + Len(x) + 1, Append(acc, x))
    ELSE acc

\* s[::-1] of Python.
Reverse(s) == [i \in 1..Len(s) |-> s[Len(s) + 1 - i]]

\* OnlineASRProcessor.prompt: the pair (prompt, context) of joined texts.
prompt(self) ==
    LET k == PromptK(self.commited, Max(0, Len(self.commited) - 1),
                     self.buffer_time_offset)
        p == Texts(SubSeq(self.commited, 1, k))
        non_prompt == SubSeq(self.commited, k + 1, Len(self.commited))
    IN  [prompt |-> Join(Reverse(PromptLoop(p, 0, <<>>)), ASR_SEP),
         context |-> Join(Texts(non_prompt), ASR_SEP)]

\* str.strip() of Python, for the separator's blank.
RECURSIVE Strip(_)
Strip(s) ==
    IF s = <<>> THEN s
    ELSE IF s[1] = " " THEN Strip(Tail(s))
    ELSE IF s[Len(s)] = " " THEN Strip(SubSeq(s, 1, Len(s) - 1))
    ELSE s

\* The inner loop of words_to_sentences, lines 301-309, for the sentence
\* fsent with sent of it left to match: what is left of cwords, and out.
RECURSIVE SentenceLoop(_, _, _, _, _)
SentenceLoop(cwords, sent, fsent, beg, out) ==
    IF cwords = <<>> THEN [cwords |-> cwords, out |-> out]
    ELSE LET b == cwords[1][1]
             e == cwords[1][2]
             w == Strip(cwords[1][3])
             rest == Strip(PySliceFrom(sent, Len(w)))
         IN  IF beg = None /\ IsPrefix(w, sent)
             THEN SentenceLoop(Tail(cwords), rest, fsent, b, out)
             ELSE IF sent = w
             THEN [cwords |-> Tail(cwords), out |-> Append(out, <<beg, e, fsent>>)]
             ELSE SentenceLoop(Tail(cwords), rest, fsent, beg, out)

\* The outer loop of words_to_sentences, lines 295-309.
RECURSIVE SentencesLoop(_, _, _)
SentencesLoop(s, cwords, out) ==
    IF s = <<>> THEN out
    ELSE LET sent == Strip(s[1])
             r == SentenceLoop(cwords, sent, sent, None, out)
         IN  SentencesLoop(Tail(s), r.cwords, r.out)

\* OnlineASRProcessor.words_to_sentences, where s is what self.tokenize([t])
\* returns for the joined text t of words.
words_to_sentences(words, s) == SentencesLoop(s, words, <<>>)

\* Lines 174-177 of process_iter: insert, flush, commited.extend(o).
CommitStep(self, tsw) ==
    LET f == flush(insert(self.transcript_buffer, tsw, self.buffer_time_offset))
    IN  [self |-> [self EXCEPT !.transcript_buffer = f.hb,
                               !.commited = self.commited \o f.commit],
         o |-> f.commit]

\* Whether process_iter gets as far as asr.segments_end_ts(res) (line 248).
\* len(audio_buffer) / SAMPLING_RATE seconds are Len(audio_buffer) ticks.
CallsSegmentsEnd(self) ==
    /\ self.buffer_trimming_way = "segment"
    /\ Len(self.audio_buffer) > buffer_trimming_sec
    /\ self.commited # <<>>

\* OnlineASRProcessor.process_iter, for the words tsw of this pass and the
\* segment ends of its result.  With "sentence", line 188 passes an argument
\* to chunk_completed_sentence(self), which takes none: TypeError.
process_iter(self, tsw, ends) ==
    LET c == CommitStep(self, tsw)
        completed == concatenate_tsw(c.o)
    IN  IF c.self.buffer_trimming_way = "sentence"
        THEN [self |-> c.self, o |-> c.o, ret |-> Raise("TypeError")]
        ELSE IF Len(c.self.audio_buffer) > buffer_trimming_sec
             THEN [self |-> chunk_completed_segment(c.self, ends),
                   o |-> c.o, ret |-> completed]
             ELSE [self |-> c.self, o |-> c.o, ret |-> completed]

\* The collaborator calls of process_iter under the segment policy, in the
\* order it makes them (lines 169, 172, 248); an exception one of them raises
\* is named after it.
Collaborators == {"transcribe", "ts_words", "segments_end_ts"}

\* Whether a pass on self with the words tsw reaches the call of collaborator.
CallsCollaborator(self, tsw, collaborator) ==
    IF collaborator = "segments_end_ts"
    THEN CallsSegmentsEnd(CommitStep(self, tsw).self)
    ELSE TRUE

\* OnlineASRProcessor.process_iter when the call of collaborator raises:
\* nothing catches it, so the pass ends there with what it has done so far.
process_iter_failing(self, tsw, collaborator) ==
    IF collaborator \in {"transcribe", "ts_words"}
    THEN [self |-> self, o |-> <<>>, ret |-> Raise(collaborator)]
    ELSE LET c == CommitStep(self, tsw)
         IN  [self |-> c.self, o |-> c.o, ret |-> Raise(collaborator)]

\* What evaluating the f-string of line 318 does with f = (b, e, text):
\* None * 1000, "" [0], or format(str, ".0f").
FinishLog(f) ==
    IF f.b = None THEN "TypeError"
    ELSE IF Len(f.t) = 0 THEN "IndexError"
    ELSE "ValueError"

\* OnlineASRProcessor.finish
finish(self) ==
    LET f == concatenate_tsw(complete(self.transcript_buffer))
        exc == FinishLog(f)
    IN  IF exc # "-"
        THEN [self |-> self, ret |-> Raise(exc)]
        ELSE [self |-> [self EXCEPT !.buffer_time_offset =
                                       self.buffer_time_offset + Len(self.audio_buffer)],
              ret |-> f]


\* --------------------------------------------------- VACOnlineASRProcessor

\* What self.vac(audio) returns: None, {"start": f}, {"end": f} or both, f an
\* absolute frame (block) of the stream; None stands for an absent key.
NoEvent == [start |-> None, end |-> None]

\* VACOnlineASRProcessor.init, after self.online.init().
vac_init ==
    [current_online_chunk_buffer_size |-> 0,
     is_currently_final |-> FALSE,
     status |-> "None",
     audio_buffer |-> <<>>,
     buffer_offset |-> 0]

\* VACOnlineASRProcessor.clear_buffer
clear_buffer(v) ==
    [v EXCEPT !.buffer_offset = v.buffer_offset + Len(v.audio_buffer),
              !.audio_buffer = <<>>]

\* A mutant of Forward: the forwarded audio stays in the VAC's buffer.
Forward_KeepsBuffer(v, on, send_audio, final) ==
    [vac |-> [v EXCEPT
                !.current_online_chunk_buffer_size =
                    v.current_online_chunk_buffer_size + Len(send_audio),
                !.is_currently_final = final],
     online |-> insert_audio_chunk(on, send_audio),
     sent |-> send_audio]

\* The lines every forwarding branch of insert_audio_chunk ends with:
\* self.online.insert_audio_chunk(send_audio), the accumulator, the final
\* flag where the branch sets it, clear_buffer().
Forward(v, on, send_audio, final) ==
    [vac |-> clear_buffer([v EXCEPT
                !.current_online_chunk_buffer_size =
                    v.current_online_chunk_buffer_size + Len(send_audio),
                !.is_currently_final = final]),
     online |-> insert_audio_chunk(on, send_audio),
     sent |-> send_audio]

\* VACOnlineASRProcessor.insert_audio_chunk, res being what the VAD returned
\* for the chunk: the VAC and the inner processor afterwards, and the audio
\* sent on.  A frame over SAMPLING_RATE, in seconds, is that frame in ticks.
vac_insert_audio_chunk(v, on, audio, res) ==
    LET v1 == [v EXCEPT !.audio_buffer = v.audio_buffer \o audio]
        buf == v1.audio_buffer
    IN  IF res # NoEvent
        THEN IF res.start # None /\ res.end = None
             THEN LET frame == res.start - v1.buffer_offset
                  IN  Forward([v1 EXCEPT !.status = "voice"],
                              init(on.buffer_trimming_way, frame + v1.buffer_offset),
                              PySliceFrom(buf, frame), v1.is_currently_final)
             ELSE IF res.end # None /\ res.start = None
             THEN LET frame == res.end - v1.buffer_offset
                  IN  Forward([v1 EXCEPT !.status = "nonvoice"], on,
                              PySliceTo(buf, frame), TRUE)
             ELSE LET beg == res.start - v1.buffer_offset
                      end == res.end - v1.buffer_offset
                  IN  Forward([v1 EXCEPT !.status = "nonvoice"],
                              init(on.buffer_trimming_way, beg + v1.buffer_offset),
                              PySlice(buf, beg, end), TRUE)
        ELSE IF v1.status = "voice"
             THEN Forward(v1, on, buf, v1.is_currently_final)
             ELSE [vac |-> [v1 EXCEPT
                              !.buffer_offset = v1.buffer_offset
                                  + Max(0, Len(buf) - SAMPLING_RATE),
                              !.audio_buffer = PySliceFrom(buf, 0 - SAMPLING_RATE)],
                   online |-> on,
                   sent |-> <<>>]

\* VACOnlineASRProcessor.finish: the two assignments after online.finish()
\* run only when it returns.
vac_finish(v, on) ==
    LET f == finish(on)
    IN  IF f.ret.kind = "raise"
        THEN [vac |-> v, online |-> f.self, ret |-> f.ret]
        ELSE [vac |-> [v EXCEPT !.current_online_chunk_buffer_size = 0,
                                !.is_currently_final = FALSE],
              online |-> f.self, ret |-> f.ret]

\* A mutant of RunsRecognizer: the threshold itself is enough.
RunsRecognizer_AtThreshold(v) ==
    /\ ~v.is_currently_final
    /\ v.current_online_chunk_buffer_size >= online_chunk_size

\* Whether VACOnlineASRProcessor.process_iter runs the inner process_iter.
\* SAMPLING_RATE * online_chunk_size samples are online_chunk_size ticks' blocks.
RunsRecognizer(v) ==
    /\ ~v.is_currently_final
    /\ v.current_online_chunk_buffer_size > online_chunk_size

\* ------------------------------------------------------------------- state

VARIABLES
    online,          \* the OnlineASRProcessor: its fields, transcript_buffer included
    lastOp,          \* the method the caller ran last
    ret,             \* what that call returned or raised
    o,               \* the words the last process_iter appended to commited
    passed,          \* whether process_iter has run in this utterance
    ingested,        \* blocks handed to online.insert_audio_chunk in this utterance
    seg_ends,        \* what segments_end_ts returned in the last pass (<<>>: not called)
    trimmed_by,      \* by how many ticks the last pass moved buffer_time_offset
    hyp_texts,       \* the texts of the last pass's hypothesis
    last_end,        \* the latest end timestamp process_iter returned (None: none yet)
    vac,             \* the VACOnlineASRProcessor's own fields (online is its self.online)
    vac_calls,       \* VAC insert_audio_chunk calls so far
    vac_ingested,    \* blocks handed to the VAC's insert_audio_chunk so far
    vad_event,       \* what the VAD returned in the last VAC insert_audio_chunk
    sent,            \* the audio the last VAC insert_audio_chunk sent to online
    forwarded,       \* every block sent to online so far, in order
    vac_branch,      \* what the last VAC process_iter did: "finish", "recognizer", "idle"
    since_pass,      \* blocks sent to online since the VAC last ran the inner process_iter
    args,            \* the arguments of the last call made on the HypothesisBuffer
    prompted,        \* what the last call of prompt() returned
    tokenized,       \* what self.tokenize returned in the last words_to_sentences
    sentences        \* what the last call of words_to_sentences returned

vac_vars == <<vac, vac_calls, vac_ingested, vad_event, sent, forwarded, vac_branch,
              since_pass>>

vars == <<online, lastOp, ret, o, passed, ingested, seg_ends, trimmed_by,
          hyp_texts, last_end, vac_vars, args, prompted, tokenized, sentences>>

\* insert(new, offset), pop_commited(time); flush() and complete() take none.
Args(new, offset, time) == [new |-> new, offset |-> offset, time |-> time]

\* self.transcript_buffer, the processor's HypothesisBuffer.
hb == online.transcript_buffer

\* The blocks numbered from + 1 .. from + n: every block of audio has its own
\* number, which says where in the stream it is.
Blocks(from, n) == [i \in 1..n |-> from + i]

TextSet(words) == {words[i][3] : i \in 1..Len(words)}

InitWith(way) ==
    /\ online = init(way, 0)
    /\ lastOp = "init"
    /\ ret = NoReturn
    /\ o = <<>>
    /\ passed = FALSE
    /\ ingested = 0
    /\ seg_ends = <<>>
    /\ trimmed_by = 0
    /\ hyp_texts = {}
    /\ last_end = None
    /\ vac = vac_init
    /\ vac_calls = 0
    /\ vac_ingested = 0
    /\ vad_event = NoEvent
    /\ sent = <<>>
    /\ forwarded = <<>>
    /\ vac_branch = "-"
    /\ since_pass = 0
    /\ args = Args(<<>>, 0, 0)
    /\ prompted = [prompt |-> <<>>, context |-> <<>>]
    /\ tokenized = <<>>
    /\ sentences = <<>>

\* OnlineASRProcessor(asr, buffer_trimming=("segment", buffer_trimming_sec))
Init == InitWith("segment")

\* OnlineASRProcessor(asr, tokenize, buffer_trimming=("sentence", buffer_trimming_sec))
InitSentence == InitWith("sentence")

\* The caller appends a chunk of n blocks.
InsertAudioChunk ==
    \E n \in ChunkSizes :
        /\ lastOp # "finish"
        /\ ingested + n <= MaxAudio
        /\ online' = insert_audio_chunk(online, Blocks(ingested, n))
        /\ ingested' = ingested + n
        /\ lastOp' = "insert_audio_chunk"
        /\ ret' = NoReturn
        /\ UNCHANGED <<o, passed, seg_ends, trimmed_by, hyp_texts, last_end, vac_vars, args, prompted, tokenized, sentences>>

\* The bookkeeping of one recognition pass whose outcome is r.
Record(r, tsw, ends) ==
    /\ online' = r.self
    /\ o' = r.o
    /\ ret' = r.ret
    /\ seg_ends' = ends
    /\ trimmed_by' = r.self.buffer_time_offset - online.buffer_time_offset
    /\ passed' = TRUE
    /\ hyp_texts' = TextSet(tsw)
    /\ last_end' = IF r.ret.kind = "return" /\ r.ret.e # None
                   THEN r.ret.e ELSE last_end
    /\ UNCHANGED ingested

\* A recognition pass that leaves at most MaxCommitted words committed.
Pass(r, tsw, ends) ==
    /\ Len(r.self.commited) <= MaxCommitted
    /\ Record(r, tsw, ends)

\* One recognition pass on online: the recognizer returns any hypothesis of
\* Hyps and, where the pass asks for them, any list of segment ends of Ends.
Recognize(Hyps, Ends) ==
    \E tsw \in Hyps :
        IF CallsSegmentsEnd(CommitStep(online, tsw).self)
        THEN \E ends \in Ends : Pass(process_iter(online, tsw, ends), tsw, ends)
        ELSE Pass(process_iter(online, tsw, <<>>), tsw, <<>>)

\* The caller runs OnlineASRProcessor.process_iter.
ProcessIterWith(Hyps, Ends) ==
    /\ lastOp # "finish"
    /\ Recognize(Hyps, Ends)
    /\ lastOp' = "process_iter"
    /\ UNCHANGED <<vac_vars, args, prompted, tokenized, sentences>>

ProcessIter == ProcessIterWith(Hypotheses, FewSegmentEnds)

ProcessIterTrim == ProcessIterWith(FewHypotheses, SegmentEnds)

\* The caller ends the utterance: finish is the last call on it.
Finish ==
    /\ lastOp # "finish"
    /\ online' = finish(online).self
    /\ ret' = finish(online).ret
    /\ lastOp' = "finish"
    /\ UNCHANGED <<o, passed, ingested, seg_ends, trimmed_by, hyp_texts, last_end,
                   vac_vars, args, prompted, tokenized, sentences>>

Next == InsertAudioChunk \/ ProcessIter \/ Finish

\* The segment policy, any hypotheses.
Spec == Init /\ [][Next]_vars

\* The sentence policy, any hypotheses.
SpecSentence == InitSentence /\ [][Next]_vars

NextTrim == InsertAudioChunk \/ ProcessIterTrim \/ Finish

\* The segment policy, any segment ends.
SpecTrim == Init /\ [][NextTrim]_vars

\* The caller runs OnlineASRProcessor.process_iter and a collaborator raises.
\* A pass that fails before ts_words returns has inserted no hypothesis.
ProcessIterFails ==
    \E tsw \in FewHypotheses : \E collaborator \in Collaborators :
        LET r == process_iter_failing(online, tsw, collaborator)
        IN  /\ lastOp # "finish"
            /\ online.buffer_trimming_way = "segment"
            /\ CallsCollaborator(online, tsw, collaborator)
            /\ lastOp' = "process_iter"
            /\ IF collaborator = "segments_end_ts"
               THEN Pass(r, tsw, <<>>)
               ELSE /\ online' = r.self
                    /\ o' = r.o
                    /\ ret' = r.ret
                    /\ UNCHANGED <<passed, ingested, seg_ends, trimmed_by, hyp_texts,
                                   last_end>>
            /\ UNCHANGED <<vac_vars, args, prompted, tokenized, sentences>>

ProcessIterFew == ProcessIterWith(FewHypotheses, FewSegmentEnds)

NextErr == InsertAudioChunk \/ ProcessIterFew \/ ProcessIterFails \/ Finish

\* The segment policy, with collaborators that may raise.
SpecErr == Init /\ [][NextErr]_vars

\* The caller runs OnlineASRProcessor.process_iter; the recognizer returns any
\* hypothesis, the one of the pass before included, and no segments, so that
\* nothing is trimmed.  One word more than elsewhere may be committed: a
\* hypothesis committed whole can be followed by another commit.
ProcessIterRepeat ==
    \E tsw \in Hypotheses :
        LET r == process_iter(online, tsw, <<>>)
        IN  /\ lastOp # "finish"
            /\ Len(r.self.commited) <= MaxCommitted + 1
            /\ Record(r, tsw, <<>>)
            /\ args' = Args(tsw, online.buffer_time_offset, 0)
            /\ lastOp' = "process_iter"
            /\ UNCHANGED <<vac_vars, prompted, tokenized, sentences>>

NextRepeat == InsertAudioChunk \/ ProcessIterRepeat \/ Finish

\* The segment policy, the hypothesis of every pass on record.
SpecRepeat == Init /\ [][NextRepeat]_vars

\* The times chunk_at is given, from the start of the stream on.
ChunkTimes == 0..buffer_trimming_sec

\* A caller runs OnlineASRProcessor.chunk_at(time).
ChunkAt ==
    \E time \in ChunkTimes :
        /\ lastOp \in {"insert_audio_chunk", "process_iter"}
        /\ online' = chunk_at(online, time)
        /\ args' = Args(<<>>, 0, time)
        /\ trimmed_by' = time - online.buffer_time_offset
        /\ lastOp' = "chunk_at"
        /\ ret' = NoReturn
        /\ UNCHANGED <<o, passed, ingested, seg_ends, hyp_texts, last_end, vac_vars, prompted, tokenized, sentences>>

NextChunk == InsertAudioChunk \/ ProcessIterWith(FewHypotheses, {<<>>}) \/ ChunkAt

\* The segment policy, with chunk_at called directly.
SpecChunk == Init /\ [][NextChunk]_vars

\* A text one character short of the prompt size.
LongText == [i \in 1..(PROMPT_SIZE - 1) |-> "c"]

\* Hypotheses of up to three words, the middle one with the long text.
PromptHypotheses ==
    LET h == << <<0, 0, <<"a">>>>, <<0, 1, LongText>>, <<1, 2, <<"b">>>> >>
    IN  {SubSeq(h, 1, n) : n \in 0..3} \cup {<<h[3]>>, <<h[1], h[3]>>}

PromptSegmentEnds == {<<>>, <<1, 3>>, <<2, 3>>}

\* A recognition pass that leaves at most MaxCommitted + 1 words committed.
ProcessIterPrompt ==
    /\ lastOp # "finish"
    /\ \E tsw \in PromptHypotheses :
            \E ends \in IF CallsSegmentsEnd(CommitStep(online, tsw).self)
                         THEN PromptSegmentEnds ELSE {<<>>} :
                LET r == process_iter(online, tsw, ends)
                IN  /\ Len(r.self.commited) <= MaxCommitted + 1
                    /\ Record(r, tsw, ends)
    /\ lastOp' = "process_iter"
    /\ UNCHANGED <<vac_vars, args, prompted, tokenized, sentences>>

\* A caller runs OnlineASRProcessor.prompt(), as process_iter does at line 163.
Prompt ==
    /\ lastOp # "finish"
    /\ prompted' = prompt(online)
    /\ lastOp' = "prompt"
    /\ ret' = NoReturn
    /\ UNCHANGED <<online, o, passed, ingested, seg_ends, trimmed_by, hyp_texts,
                   last_end, vac_vars, args, tokenized, sentences>>

NextPrompt == InsertAudioChunk \/ ProcessIterPrompt \/ Prompt

\* The segment policy, with prompt() called between the passes.
SpecPrompt == Init /\ [][NextPrompt]_vars

\* The sentences of words that end after the words numbered in cuts and
\* after the last word, from word number from on: each the texts of its
\* words joined by the separator.
RECURSIVE Split(_, _, _)
Split(words, cuts, from) ==
    IF from > Len(words) THEN <<>>
    ELSE LET last == Smallest({c \in cuts \cup {Len(words)} : c >= from})
         IN  <<Join(Texts(SubSeq(words, from, last)), ASR_SEP)>>
                \o Split(words, cuts, last + 1)

\* What self.tokenize may return for words: every split of the joined text
\* into sentences of whole words.
Tokenizations(words) == {Split(words, cuts, 1) : cuts \in SUBSET (1..(Len(words) - 1))}

\* The word lists words_to_sentences is given.
SentenceWords == SeqsUpTo(Words, MaxSentenceWords)

\* A caller runs OnlineASRProcessor.words_to_sentences(words).
WordsToSentences ==
    \E words \in SentenceWords :
        \E s \in Tokenizations(words) :
            /\ args' = Args(words, 0, 0)
            /\ tokenized' = s
            /\ sentences' = words_to_sentences(words, s)
            /\ lastOp' = "words_to_sentences"
            /\ ret' = NoReturn
            /\ UNCHANGED <<online, o, passed, ingested, seg_ends, trimmed_by, hyp_texts,
                           last_end, vac_vars, prompted>>

\* The sentence policy, with words_to_sentences called directly.
SpecSentences == InitSentence /\ [][WordsToSentences]_vars

\* A hypothesis longer than the longest n-gram insert compares, whose first
\* six texts are the same as its last six and no fewer are.
LongHypothesis ==
    <<<<1, 2, <<"b">>>>, <<1, 1, <<"a">>>>, <<1, 1, <<"a">>>>, <<1, 1, <<"a">>>>,
      <<1, 1, <<"a">>>>, <<1, 1, <<"a">>>>>>

\* The hypotheses insert is given: of one word and of two, with a text
\* repeated and not, with texts that hold the space n-grams are joined with,
\* and the long one.
BufferHypotheses ==
    FewHypotheses
    \cup {<<<<0, 0, <<"a">>>>, <<1, 1, <<"a">>>>>>,
          <<<<1, 1, <<"a">>>>, <<1, 2, <<"b">>>>>>,
          <<<<0, 0, <<"a">>>>, <<1, 1, <<"b", " ", "a">>>>>>,
          <<<<1, 1, <<"a", " ", "b">>>>, <<1, 2, <<"a">>>>>>,
          LongHypothesis}

\* The offsets insert is given: the start of the stream, and one that puts the
\* words a second away from it.
BufferOffsets == {0, DEDUP_WINDOW}

\* The times pop_commited is given.
PopTimes == {0, 2}

\* A caller of the HypothesisBuffer runs insert(new, offset).
HbInsert ==
    \E new \in BufferHypotheses : \E offset \in BufferOffsets :
        /\ online' = [online EXCEPT !.transcript_buffer = insert(hb, new, offset)]
        /\ args' = Args(new, offset, 0)
        /\ lastOp' = "hb_insert"
        /\ ret' = NoReturn
        /\ UNCHANGED <<o, passed, ingested, seg_ends, trimmed_by, hyp_texts, last_end,
                       vac_vars, prompted, tokenized, sentences>>

\* A caller of the HypothesisBuffer runs flush(); o is what it returns.  The
\* words committed are at most MaxCommitted, or the long hypothesis whole.
HbFlush ==
    /\ \/ Len(flush(hb).hb.commited_in_buffer) <= MaxCommitted
       \/ Texts(flush(hb).hb.commited_in_buffer) = Texts(LongHypothesis)
    /\ online' = [online EXCEPT !.transcript_buffer = flush(hb).hb]
    /\ o' = flush(hb).commit
    /\ args' = Args(<<>>, 0, 0)
    /\ lastOp' = "hb_flush"
    /\ ret' = NoReturn
    /\ UNCHANGED <<passed, ingested, seg_ends, trimmed_by, hyp_texts, last_end, vac_vars, prompted, tokenized, sentences>>

\* A caller of the HypothesisBuffer runs pop_commited(time).
HbPopCommited ==
    \E time \in PopTimes :
        /\ online' = [online EXCEPT !.transcript_buffer = pop_commited(hb, time)]
        /\ args' = Args(<<>>, 0, time)
        /\ lastOp' = "hb_pop_commited"
        /\ ret' = NoReturn
        /\ UNCHANGED <<o, passed, ingested, seg_ends, trimmed_by, hyp_texts, last_end,
                       vac_vars, prompted, tokenized, sentences>>

NextBuffer == HbInsert \/ HbFlush \/ HbPopCommited

\* The HypothesisBuffer of a fresh processor, called directly.
SpecBuffer == Init /\ [][NextBuffer]_vars

\* The frames the VAD reports for a buffer of len blocks at offset: before
\* the buffer, inside it, past its end.
VadFrames(offset, len) == {f \in {offset - 1, offset + 1, offset + len + 1} : f >= 0}

VadEvents(offset, len) ==
    {NoEvent}
    \cup {[start |-> f, end |-> None] : f \in VadFrames(offset, len)}
    \cup {[start |-> None, end |-> f] : f \in VadFrames(offset, len)}
    \cup {[start |-> p[1], end |-> p[2]] :
             p \in {q \in VadFrames(offset, len) \X VadFrames(offset, len) : q[1] < q[2]}}

\* The caller hands the VAC a chunk of n blocks; the VAD returns any event.
VacInsertAudioChunk ==
    \E n \in VacChunkSizes :
      \E res \in VadEvents(vac.buffer_offset, Len(vac.audio_buffer) + n) :
        LET r == vac_insert_audio_chunk(vac, online, Blocks(vac_ingested, n), res)
            fresh == res.start # None
        IN  /\ lastOp # "vac_finish"
            /\ vac_calls < MaxVacCalls
            /\ vac' = r.vac
            /\ online' = r.online
            /\ vac_calls' = vac_calls + 1
            /\ vac_ingested' = vac_ingested + n
            /\ vad_event' = res
            /\ sent' = r.sent
            /\ forwarded' = forwarded \o r.sent
            /\ since_pass' = since_pass + Len(r.sent)
            /\ ingested' = (IF fresh THEN 0 ELSE ingested) + Len(r.sent)
            /\ passed' = (passed /\ ~fresh)
            /\ hyp_texts' = IF fresh THEN {} ELSE hyp_texts
            /\ last_end' = IF fresh THEN None ELSE last_end
            /\ lastOp' = "vac_insert_audio_chunk"
            /\ ret' = NoReturn
            /\ UNCHANGED <<o, seg_ends, trimmed_by, vac_branch, args, prompted, tokenized, sentences>>

\* The caller runs VACOnlineASRProcessor.process_iter.
VacProcessIter ==
    /\ lastOp # "vac_finish"
    /\ lastOp' = "vac_process_iter"
    /\ UNCHANGED <<vac_calls, vac_ingested, vad_event, sent, forwarded, args, prompted, tokenized, sentences>>
    /\ IF vac.is_currently_final
       THEN /\ vac' = vac_finish(vac, online).vac
            /\ online' = vac_finish(vac, online).online
            /\ ret' = vac_finish(vac, online).ret
            /\ vac_branch' = "finish"
            /\ UNCHANGED <<o, passed, ingested, seg_ends, trimmed_by, hyp_texts, last_end,
                           since_pass>>
       ELSE IF RunsRecognizer(vac)
       THEN /\ vac' = [vac EXCEPT !.current_online_chunk_buffer_size = 0]
            /\ Recognize(FewHypotheses, FewSegmentEnds)
            /\ vac_branch' = "recognizer"
            /\ since_pass' = 0
       ELSE /\ ret' = Triple(None, None, <<>>)
            /\ vac_branch' = "idle"
            /\ UNCHANGED <<vac, online, o, passed, ingested, seg_ends, trimmed_by,
                           hyp_texts, last_end, since_pass>>

\* The caller runs VACOnlineASRProcessor.finish.
VacFinish ==
    /\ lastOp # "vac_finish"
    /\ vac' = vac_finish(vac, online).vac
    /\ online' = vac_finish(vac, online).online
    /\ ret' = vac_finish(vac, online).ret
    /\ lastOp' = "vac_finish"
    /\ UNCHANGED <<o, passed, ingested, seg_ends, trimmed_by, hyp_texts, last_end,
                   vac_calls, vac_ingested, vad_event, sent, forwarded, vac_branch,
                   since_pass, args, prompted, tokenized, sentences>>

NextVac == VacInsertAudioChunk \/ VacProcessIter \/ VacFinish

\* The VAC around a processor with the segment policy.
SpecVac == Init /\ [][NextVac]_vars

\* ------------------------------------------------------------------ claims

\* The fields the claims read.
IsPass == lastOp' = "process_iter"
Returned(r) == r.kind = "return" /\ r.e # None

C2_DoubleAgreement ==
    [][IsPass =>
         /\ \A i \in 1..Len(o') : o'[i][3] \in hyp_texts' /\ o'[i][3] \in hyp_texts
         /\ (~passed => o' = <<>>)
         /\ online'.commited = online.commited \o o']_vars

\* A pass has committed a word and left an unconfirmed tail.
C2_Witness ==
    /\ lastOp = "process_iter"
    /\ Len(o) >= 1
    /\ Len(hb.buffer) >= 1
    /\ o[1][3] \in hyp_texts

\* C3: commited only grows at its end, in every step (inserts, passes and the
\* trims they make), and the text a pass returns is the text of the words it
\* appended, so the texts returned so far stay a prefix of the texts later.
C3_PrefixStability ==
    [][/\ IsPrefix(online.commited, online'.commited)
       /\ (IsPass =>
             /\ ret'.kind = "return"
             /\ ret'.t = Join(Texts(SubSeq(online'.commited,
                                           Len(online.commited) + 1,
                                           Len(online'.commited))), ASR_SEP))]_vars

\* After a trim in an earlier pass, a pass has appended a word to a non-empty
\* commited.
C3_Witness ==
    /\ lastOp = "process_iter"
    /\ Len(o) >= 1
    /\ Len(online.commited) > Len(o)
    /\ online.buffer_time_offset > 0
    /\ trimmed_by = 0

\* The segment ends, other than the last, that lie at or before the end of
\* the last committed word once off is added: the indices into ends.
Eligible(com, ends, off) ==
    IF com = <<>> THEN {}
    ELSE {i \in 1..(Len(ends) - 1) : ends[i] + off <= com[Len(com)][2]}

Latest(S) == CHOOSE i \in S : \A j \in S : j <= i

IsSuffix(s, t) == Len(s) <= Len(t) /\ SubSeq(t, Len(t) - Len(s) + 1, Len(t)) = s

\* C4, as the specification states it: after every process_iter the audio
\* buffer is at most buffer_trimming_sec plus a slack of one chunk long,
\* however many passes have run and whatever the recognizer returned.
C4_BoundedBuffer ==
    lastOp = "process_iter"
        => Len(online.audio_buffer) <= buffer_trimming_sec + MaxChunk

\* C4, amended: a pass never lengthens the audio buffer, what it leaves is
\* the end of what it was given, and it shortens the buffer only when that
\* was longer than buffer_trimming_sec, a word is committed and a segment end
\* other than the last lies at or before the last committed word's end; with
\* nothing committed or fewer than two segments the buffer stays as it is.
C4_NeverGrows ==
    [][IsPass =>
         /\ IsSuffix(online'.audio_buffer, online.audio_buffer)
         /\ (Len(online'.audio_buffer) < Len(online.audio_buffer)
               => /\ Len(online.audio_buffer) > buffer_trimming_sec
                  /\ Eligible(online'.commited, seg_ends',
                              online.buffer_time_offset) # {})
         /\ (online'.commited = <<>> \/ Len(seg_ends') < 2
               => online'.audio_buffer = online.audio_buffer)]_vars

\* A pass has left a buffer longer than buffer_trimming_sec plus a chunk,
\* nothing being committed.
C4_Witness ==
    /\ lastOp = "process_iter"
    /\ online.commited = <<>>
    /\ Len(online.audio_buffer) > buffer_trimming_sec + MaxChunk

\* C8: a pass that finds the audio longer than buffer_trimming_sec trims at
\* the latest segment end, the final one apart, that is at or before the end
\* of the last committed word: buffer_time_offset becomes that time and the
\* audio before it is dropped.  Without such a segment end (fewer than two
\* segments, nothing committed) audio_buffer and buffer_time_offset stay.
\* No trim goes past the end of the last committed word.
C8_SegmentTrim ==
    [][(IsPass /\ Len(online.audio_buffer) > buffer_trimming_sec
               /\ IsSorted(seg_ends')) =>
         LET off == online.buffer_time_offset
             com == online'.commited
             cands == Eligible(com, seg_ends', off)
         IN  IF cands = {}
             THEN /\ online'.audio_buffer = online.audio_buffer
                  /\ online'.buffer_time_offset = off
             ELSE /\ online'.buffer_time_offset = seg_ends'[Latest(cands)] + off
                  /\ online'.audio_buffer =
                         PySliceFrom(online.audio_buffer, seg_ends'[Latest(cands)])
                  /\ online'.buffer_time_offset <= com[Len(com)][2]]_vars

\* A pass given three segments has trimmed at the first, the second being
\* after the last committed word.
C8_Witness ==
    /\ lastOp = "process_iter"
    /\ Len(seg_ends) = 3
    /\ trimmed_by > 0
    /\ trimmed_by = seg_ends[1]
    /\ seg_ends[2] > trimmed_by
    /\ Len(online.audio_buffer) < ingested

\* C5: finish returns the triple of the uncommitted tail, (None, None, "")
\* for an empty tail, without an error.
C5_FinishReturnsTail ==
    lastOp = "finish" => ret = concatenate_tsw(complete(hb))

\* C6: after finish, buffer_time_offset is the utterance's starting offset
\* (0) plus the audio ingested.
C6_FinishClosure ==
    lastOp = "finish" => online.buffer_time_offset = 0 + ingested

\* C7: under the sentence policy process_iter returns the triple of the words
\* it has just committed.
C7_SentencePassReturns ==
    (lastOp = "process_iter" /\ online.buffer_trimming_way = "sentence")
        => ret = concatenate_tsw(o)

NoDuplicates(s) == \A i, j \in 1..Len(s) : s[i] = s[j] => i = j

\* C9: whatever the VAD reports, every block the VAC has sent to the inner
\* processor is a block it was handed, and no block is sent twice; so no more
\* blocks are sent than were handed in.
C9_NoDoubleForward ==
    /\ NoDuplicates(forwarded)
    /\ \A i \in 1..Len(forwarded) : forwarded[i] \in 1..vac_ingested
    /\ Len(forwarded) <= vac_ingested

\* The VAC has sent audio on in two calls or more, and has kept some back.
C9_Witness ==
    /\ lastOp = "vac_insert_audio_chunk"
    /\ sent # <<>>
    /\ Len(forwarded) > Len(sent)
    /\ Len(forwarded) < vac_ingested

\* C10: on an end-only event at frame F insert_audio_chunk sends on the
\* buffered audio before local index F - buffer_offset, sets status to
\* nonvoice and sets is_currently_final; a process_iter that finds
\* is_currently_final set returns the result of the inner finish() without
\* running the recognizer, and clears is_currently_final.
C10_ForcedFinalization ==
    [][/\ (/\ lastOp' = "vac_insert_audio_chunk"
           /\ vad_event'.start = None
           /\ vad_event'.end # None)
          => /\ sent' = PySliceTo(vac.audio_buffer
                                    \o Blocks(vac_ingested, vac_ingested' - vac_ingested),
                                  vad_event'.end - vac.buffer_offset)
             /\ vac'.status = "nonvoice"
             /\ vac'.is_currently_final
       /\ (lastOp' = "vac_process_iter" /\ vac.is_currently_final)
          => /\ vac_branch' = "finish"
             /\ ret'.kind = "return"
             /\ ~vac'.is_currently_final]_vars

IsVacPass == lastOp' = "vac_process_iter"

\* C11: a VAC process_iter that finds is_currently_final unset runs the inner
\* process_iter exactly when the accumulator is above online_chunk_size, and
\* then sets the accumulator to 0; otherwise it returns (None, None, "") and
\* leaves the inner processor and the accumulator as they are.  When it runs
\* the inner process_iter, more than online_chunk_size of audio has been sent
\* to the inner processor since it last did.
C11_RateLimit ==
    [][(IsVacPass /\ ~vac.is_currently_final) =>
         IF vac.current_online_chunk_buffer_size > online_chunk_size
         THEN /\ vac_branch' = "recognizer"
              /\ vac'.current_online_chunk_buffer_size = 0
              /\ since_pass > online_chunk_size
         ELSE /\ vac_branch' = "idle"
              /\ ret' = Triple(None, None, <<>>)
              /\ online' = online
              /\ vac' = vac]_vars

\* The VAC has run the inner process_iter for a second time in an utterance,
\* which committed a word.
C11_Witness ==
    /\ lastOp = "vac_process_iter"
    /\ vac_branch = "recognizer"
    /\ Len(o) >= 1
    /\ vac.current_online_chunk_buffer_size = 0

\* C12: a pass that ends with the error of a collaborator (transcribe,
\* ts_words, segments_end_ts) leaves audio_buffer, buffer_time_offset,
\* commited and the hypothesis buffer as they were before the call.
C12_CollaboratorErrors ==
    [][(IsPass /\ ret'.kind = "raise" /\ ret'.exc \in Collaborators)
          => online' = online]_vars

\* The number of leading places in which s and t agree.
CommonPrefixLen(s, t) ==
    CHOOSE n \in 0..Min(Len(s), Len(t)) :
        /\ \A i \in 1..n : s[i] = t[i]
        /\ (n < Min(Len(s), Len(t)) => s[n + 1] # t[n + 1])

\* C13: flush returns the words of new in the longest common prefix, by text,
\* of new and buffer, with new's timestamps; it appends them to
\* commited_in_buffer, sets last_commited_time and last_commited_word to the
\* end and text of the last of them (leaving both when there is none), makes
\* the rest of new the buffer and empties new.
C13_FlushCommitsPrefix ==
    [][lastOp' = "hb_flush" =>
         LET n == CommonPrefixLen(Texts(hb.new), Texts(hb.buffer))
             after == online'.transcript_buffer
         IN  /\ o' = SubSeq(hb.new, 1, n)
             /\ after.commited_in_buffer = hb.commited_in_buffer \o o'
             /\ after.buffer = SubSeq(hb.new, n + 1, Len(hb.new))
             /\ after.new = <<>>
             /\ after.last_commited_time =
                    (IF n > 0 THEN hb.new[n][2] ELSE hb.last_commited_time)
             /\ after.last_commited_word =
                    (IF n > 0 THEN hb.new[n][3] ELSE hb.last_commited_word)]_vars

\* flush has committed the first of two words and kept the second, of another
\* text, as the buffer.
C13_Witness ==
    /\ lastOp = "hb_flush"
    /\ Len(o) = 1
    /\ Len(hb.buffer) = 1
    /\ o[1][3] # hb.buffer[1][3]
    /\ hb.last_commited_time = o[1][2]

\* The n in 1..lim for which the last n texts of cib are, in order, the first
\* n texts of new.
MatchingNgrams(cib, new, lim) ==
    {n \in 1..lim : Texts(SubSeq(cib, Len(cib) - n + 1, Len(cib)))
                        = Texts(SubSeq(new, 1, n))}


\* C14, as the specification states it: insert leaves in new the words of
\* its argument, shifted by offset, that begin after last_commited_time - 0.1 s, less the first n of them when
\* the first begins within 1 s of last_commited_time, commited_in_buffer is
\* not empty and n is the smallest of 1..min(5, |commited_in_buffer|, |new|)
\* for which the last n committed texts are the first n new texts; it leaves
\* commited_in_buffer, buffer and last_commited_time as they are.
C14_BoundaryDedup ==
    [][lastOp' = "hb_insert" =>
         LET shifted == [i \in 1..Len(args'.new) |->
                            <<args'.new[i][1] + args'.offset,
                              args'.new[i][2] + args'.offset, args'.new[i][3]>>]
             Keep(w) == w[1] > hb.last_commited_time - HORIZON
             kept == SelectSeq(shifted, Keep)
             cib == hb.commited_in_buffer
             ns == IF /\ Len(kept) >= 1
                      /\ Abs(kept[1][1] - hb.last_commited_time) < DEDUP_WINDOW
                      /\ cib # <<>>
                   THEN MatchingNgrams(cib, kept,
                                       Min(MAX_NGRAM, Min(Len(cib), Len(kept))))
                   ELSE {}
             after == online'.transcript_buffer
         IN  /\ after.new = IF ns = {} THEN kept
                            ELSE SubSeq(kept, Smallest(ns) + 1, Len(kept))
             /\ after.commited_in_buffer = cib
             /\ after.buffer = hb.buffer
             /\ after.last_commited_time = hb.last_commited_time]_vars

\* The n in 1..lim for which the last n texts of cib, joined by single spaces,
\* are the first n texts of new joined by single spaces.
JoinedNgrams(cib, new, lim) ==
    {n \in 1..lim : Join(Texts(SubSeq(cib, Len(cib) - n + 1, Len(cib))), <<" ">>)
                        = Join(Texts(SubSeq(new, 1, n)), <<" ">>)}

\* C14, amended: as stated, but the n-grams are compared as texts joined by
\* single spaces, so that texts which hold a space can agree joined without
\* being the same texts.
C14_JoinedDedup ==
    [][lastOp' = "hb_insert" =>
         LET shifted == [i \in 1..Len(args'.new) |->
                            <<args'.new[i][1] + args'.offset,
                              args'.new[i][2] + args'.offset, args'.new[i][3]>>]
             Keep(w) == w[1] > hb.last_commited_time - HORIZON
             kept == SelectSeq(shifted, Keep)
             cib == hb.commited_in_buffer
             ns == IF /\ Len(kept) >= 1
                      /\ Abs(kept[1][1] - hb.last_commited_time) < DEDUP_WINDOW
                      /\ cib # <<>>
                   THEN JoinedNgrams(cib, kept,
                                     Min(MAX_NGRAM, Min(Len(cib), Len(kept))))
                   ELSE {}
             after == online'.transcript_buffer
         IN  /\ after.new = IF ns = {} THEN kept
                            ELSE SubSeq(kept, Smallest(ns) + 1, Len(kept))
             /\ after.commited_in_buffer = cib
             /\ after.buffer = hb.buffer
             /\ after.last_commited_time = hb.last_commited_time]_vars

\* insert has dropped one word of a hypothesis of two, the last two committed
\* texts being the two texts of the hypothesis.
C14_Witness ==
    /\ lastOp = "hb_insert"
    /\ Len(hb.commited_in_buffer) = 2
    /\ Len(args.new) = 2
    /\ Len(hb.new) = 1
    /\ Texts(hb.commited_in_buffer) = Texts(args.new)
    /\ hb.new[1] = args.new[2]

\* The words of the hypothesis new as insert shifts them by offset.
Shifted(new, offset) ==
    [i \in 1..Len(new) |-> <<new[i][1] + offset, new[i][2] + offset, new[i][3]>>]

\* C15: a pass given the hypothesis of the pass before it, nothing having been
\* trimmed, commits only words whose texts are, in order, the first texts of
\* the uncommitted tail that pass left; and once the words committed are the
\* words of that hypothesis (distinct words, in time order), each once, it
\* commits nothing, so that no word of the hypothesis is committed twice.
C15_RepeatedHypothesis ==
    [][(IsPass /\ passed /\ args'.new = args.new /\ args'.offset = args.offset) =>
         LET hyp == Shifted(args'.new, args'.offset)
         IN  /\ IsPrefix(Texts(o'), Texts(hb.buffer))
             /\ (/\ online.commited = hyp
                 /\ NoDuplicates(hyp)
                 /\ IsSorted([i \in 1..Len(hyp) |-> hyp[i][1]]))
                => o' = <<>>]_vars

\* C16: chunk_at(t) with t before buffer_time_offset leaves audio_buffer,
\* buffer_time_offset and commited_in_buffer as they are; with t at or after
\* it, chunk_at drops the words of commited_in_buffer that end at or before t
\* and the audio before t, and sets buffer_time_offset to t.  So
\* buffer_time_offset never decreases.
C16_ChunkAt ==
    [][/\ lastOp' = "chunk_at" =>
            IF args'.time < online.buffer_time_offset
            THEN /\ online'.audio_buffer = online.audio_buffer
                 /\ online'.buffer_time_offset = online.buffer_time_offset
                 /\ online'.transcript_buffer.commited_in_buffer
                        = hb.commited_in_buffer
            ELSE LET Stays(w) == w[2] > args'.time
                     cut == args'.time - online.buffer_time_offset
                 IN  /\ online'.transcript_buffer.commited_in_buffer
                            = SelectSeq(hb.commited_in_buffer, Stays)
                     /\ online'.audio_buffer
                            = SubSeq(online.audio_buffer, Min(cut, Len(online.audio_buffer)) + 1,
                                     Len(online.audio_buffer))
                     /\ online'.buffer_time_offset = args'.time
       /\ online'.buffer_time_offset >= online.buffer_time_offset]_vars

\* len(text) + 1 per word, summed.
RECURSIVE PromptLength(_)
PromptLength(texts) ==
    IF texts = <<>> THEN 0 ELSE Len(texts[1]) + 1 + PromptLength(Tail(texts))

\* The shortest suffix of texts whose PromptLength reaches PROMPT_SIZE, or
\* all of texts if none does.
ShortestSuffix(texts) ==
    LET Reaching == {i \in 1..Len(texts) :
                        PromptLength(SubSeq(texts, i, Len(texts))) >= PROMPT_SIZE}
    IN  IF Reaching = {} THEN texts
        ELSE SubSeq(texts, Latest(Reaching), Len(texts))

\* C17: prompt() splits commited in two: the context is the committed words
\* that end after buffer_time_offset, and the prompt is the shortest suffix
\* of the words that end at or before it whose length, len(text) + 1 per
\* word, reaches 200 characters, or all of them; both in the original order.
C17_PromptPartition ==
    lastOp = "prompt" =>
        LET InWindow(w) == w[2] > online.buffer_time_offset
            Before(w) == ~InWindow(w)
        IN  /\ prompted.context
                    = Join(Texts(SelectSeq(online.commited, InWindow)), ASR_SEP)
            /\ prompted.prompt
                    = Join(ShortestSuffix(Texts(SelectSeq(online.commited, Before))),
                           ASR_SEP)

\* The triples of the sentences Split(words, cuts, from) makes: the begin of
\* the first word, the end of the last word, and the text of each.
RECURSIVE SentenceTriples(_, _, _)
SentenceTriples(words, cuts, from) ==
    IF from > Len(words) THEN <<>>
    ELSE LET last == Smallest({c \in cuts \cup {Len(words)} : c >= from})
         IN  << <<words[from][1], words[last][2],
                  Join(Texts(SubSeq(words, from, last)), ASR_SEP)>> >>
                \o SentenceTriples(words, cuts, last + 1)

\* C18: for words and sentences the tokenizer made of whole words of them,
\* in order, words_to_sentences returns one triple per sentence, in order:
\* the begin of its first word, the end of its last word and its text;
\* sentences of one word included.
C18_OneTriplePerSentence ==
    lastOp = "words_to_sentences" =>
        \E cuts \in SUBSET (1..(Len(args.new) - 1)) :
            /\ tokenized = Split(args.new, cuts, 1)
            /\ sentences = SentenceTriples(args.new, cuts, 1)

\* C19: once a VAD end event has set is_currently_final, the chunks inserted
\* before the next process_iter leave the uncommitted tail of the utterance
\* (transcript_buffer.buffer) and is_currently_final as they are, a chunk
\* with a new VAD start included, and that process_iter returns the tail,
\* concatenated, as the result of finish().
C19_TailFlushedAsIs ==
    [][/\ (vac.is_currently_final /\ lastOp' = "vac_insert_audio_chunk") =>
            /\ vac'.is_currently_final
            /\ online'.transcript_buffer.buffer = hb.buffer
       /\ (vac.is_currently_final /\ IsVacPass) =>
            ret' = concatenate_tsw(hb.buffer)]_vars

\* C20: no committed word is lost: a process_iter only appends to commited,
\* and it returns the words it appends, concatenated, to its caller,
\* whether it ends in an error or not.
C20_NoCommittedWordLost ==
    [][IsPass =>
         LET appended == SubSeq(online'.commited, Len(online.commited) + 1,
                                Len(online'.commited))
         IN  /\ IsPrefix(online.commited, online'.commited)
             /\ appended # <<>> => ret' = concatenate_tsw(appended)]_vars

====
